---- MODULE Spec2Model ----
(***************************************************************************)
(* trackintel: typed views over (Geo)DataFrames (model/triplegs.py and the *)
(* helper classes exercised by tests/model/test_util.py), the accessor     *)
(* registry, and the labelling routines of analysis/labelling.py.          *)
(*                                                                         *)
(* trackintel/model/util.py (TrackintelGeoDataFrame, TrackintelDataFrame,  *)
(* _wrapped_gdf_method, NonCachedAccessor, _register_trackintel_accessor)  *)
(* is not part of the source tree at hand: the definitions that stand for  *)
(* it follow the specification's section 4 and agree with every assertion  *)
(* of tests/model/test_util.py.                                            *)
(***************************************************************************)
EXTENDS Integers, Sequences, FiniteSets, TLC

VARIABLES obj, last, origin, registry, acc, tpls, lab, sp, flag

vars == <<obj, last, origin, registry, acc, tpls, lab, sp, flag>>

(***************************************************************************)
(* Bounds of the model.                                                    *)
(***************************************************************************)
\* rows of a raw table handed to a constructor
MaxRows == 2
\* rows of the result of a merge
MaxMergeRows == 4
\* accesses of one instance in a row
MaxAccesses == 2
\* triplegs of a table handed to predict_transport_mode
MaxTriplegs == 2
\* bands of a categories mapping passed by the caller
MaxBands == 2
\* largest finite bound of such a mapping, and the speeds below it, in km/h
MaxSpeed == 3
\* staypoints of a table handed to create_activity_flag
MaxStaypoints == 2

(***************************************************************************)
(* Tables.  A table is abstracted to what the contracts read: its column   *)
(* names, one geometry per row, and the dtype (timezone-aware or not) of   *)
(* the two timestamp columns.                                              *)
(***************************************************************************)
\* triplegs.py line 20
required_columns == {"user_id", "started_at", "finished_at"}

\* the required columns, the geometry column, and tracked_at: a column no
\* contract of the model requires (test_util.py fixture, lines 31-36)
Columns == required_columns \cup {"geometry", "tracked_at"}

\* the suffixed columns a merge adds (test_util.py line 179), as one name
Other == "_other"

\* a valid LineString, a valid Point, an invalid geometry
Geoms == {"LineString", "Point", "Invalid"}
NoGeom == "NoGeom"

NoRows(n) == [i \in 1..n |-> NoGeom]

RowSeqs(S, n) == UNION {[1..k -> S] : k \in 0..n}

\* the generic containers of the library and the non-tabular result
Generic == {"GeoDataFrame", "DataFrame"}
Series == "Series"

\* the typed views of the source tree: Triplegs, and the helper classes of
\* test_util.py: A (TestTrackintelGeoDataFrame.A), AFallback, and ADf
\* (TestTrackintelDataFrame.A)
Classes == {"Triplegs", "A", "AFallback", "ADf"}
None == "None"

Table(kind, cols, rows, tzS, tzF) ==
    [tag |-> kind, cols |-> cols, rows |-> rows,
     tzS |-> tzS /\ "started_at" \in cols,
     tzF |-> tzF /\ "finished_at" \in cols,
     fb |-> None]

\* raw data: every table of at most MaxRows rows, a GeoDataFrame when it
\* has a geometry column and a DataFrame otherwise
WellFormed(t) ==
    /\ \A i \in 1..Len(t.rows) : (t.rows[i] = NoGeom) <=> ("geometry" \notin t.cols)
    /\ t.tzS => "started_at" \in t.cols
    /\ t.tzF => "finished_at" \in t.cols

RawTables ==
    {t \in {Table(IF "geometry" \in cols THEN "GeoDataFrame" ELSE "DataFrame",
                  cols, rows, tzS, tzF) :
                cols \in SUBSET Columns,
                rows \in RowSeqs(Geoms \cup {NoGeom}, MaxRows),
                tzS \in BOOLEAN, tzF \in BOOLEAN} : WellFormed(t)}

\* test_util.py lines 20-41: three rows, user_id, tracked_at, Point geometry
example_positionfixes ==
    Table("GeoDataFrame", {"user_id", "tracked_at", "geometry"},
          <<"Point", "Point", "Point">>, FALSE, FALSE)

(***************************************************************************)
(* Triplegs: the contract (triplegs.py).                                   *)
(***************************************************************************)
HasGeometry(t) == "geometry" \in t.cols

AllValid(t) == \A i \in 1..Len(t.rows) : t.rows[i] # "Invalid"

\* Triplegs._validate asking for more than one row (line 61 with > 1)
Triplegs_validate_two_rows(t, validate_geometry) ==
    IF ~(Len(t.rows) > 1) THEN "AssertionError: Geodataframe is empty"
    ELSE IF \E c \in required_columns : c \notin t.cols
        THEN "AttributeError: must have the properties required_columns"
    ELSE IF ~t.tzS THEN "AssertionError: dtype of started_at"
    ELSE IF ~t.tzF THEN "AssertionError: dtype of finished_at"
    ELSE IF validate_geometry
        THEN IF ~HasGeometry(t) THEN "AttributeError: no geometry column"
             ELSE IF ~AllValid(t) THEN "AssertionError: Not all geometries are valid"
             ELSE IF t.rows[1] # "LineString"
                 THEN "AttributeError: The geometry must be a LineString"
             ELSE "ok"
    ELSE "ok"

\* Triplegs._validate checking the columns before the emptiness (lines 61
\* and 63-67 exchanged, the order of _check)
Triplegs_validate_columns_first(t, validate_geometry) ==
    IF \E c \in required_columns : c \notin t.cols
        THEN "AttributeError: must have the properties required_columns"
    ELSE IF ~(Len(t.rows) > 0) THEN "AssertionError: Geodataframe is empty"
    ELSE IF ~t.tzS THEN "AssertionError: dtype of started_at"
    ELSE IF ~t.tzF THEN "AssertionError: dtype of finished_at"
    ELSE IF validate_geometry
        THEN IF ~HasGeometry(t) THEN "AttributeError: no geometry column"
             ELSE IF ~AllValid(t) THEN "AssertionError: Not all geometries are valid"
             ELSE IF t.rows[1] # "LineString"
                 THEN "AttributeError: The geometry must be a LineString"
             ELSE "ok"
    ELSE "ok"

\* Triplegs._validate, lines 59-83: "ok", or the error raised, in the order
\* the statements run
Triplegs_validate(t, validate_geometry) ==
    IF ~(Len(t.rows) > 0) THEN "AssertionError: Geodataframe is empty"
    ELSE IF \E c \in required_columns : c \notin t.cols
        THEN "AttributeError: must have the properties required_columns"
    ELSE IF ~t.tzS THEN "AssertionError: dtype of started_at"
    ELSE IF ~t.tzF THEN "AssertionError: dtype of finished_at"
    ELSE IF validate_geometry
        THEN IF ~HasGeometry(t) THEN "AttributeError: no geometry column"
             ELSE IF ~AllValid(t) THEN "AssertionError: Not all geometries are valid"
             ELSE IF t.rows[1] # "LineString"
                 THEN "AttributeError: The geometry must be a LineString"
             ELSE "ok"
    ELSE "ok"

\* Triplegs._check with all() for any() in line 88: False only when every
\* required column is missing
Triplegs_check_all_missing(t, validate_geometry) ==
    IF \A c \in required_columns : c \notin t.cols THEN "False"
    ELSE IF Len(t.rows) <= 0 THEN "False"
    ELSE IF "started_at" \in t.cols /\ ~t.tzS THEN "False"
    ELSE IF "finished_at" \in t.cols /\ ~t.tzF THEN "False"
    ELSE IF validate_geometry
        THEN IF ~HasGeometry(t) THEN "AttributeError: no geometry column"
             ELSE IF AllValid(t) /\ t.rows[1] = "LineString" THEN "True"
             ELSE "False"
    ELSE "True"

\* Triplegs._check with < for <= in line 90: an empty table passes
Triplegs_check_accepts_empty(t, validate_geometry) ==
    IF \E c \in required_columns : c \notin t.cols THEN "False"
    ELSE IF Len(t.rows) < 0 THEN "False"
    ELSE IF ~t.tzS THEN "False"
    ELSE IF ~t.tzF THEN "False"
    ELSE IF validate_geometry
        THEN IF ~HasGeometry(t) THEN "AttributeError: no geometry column"
             ELSE IF AllValid(t) /\ (Len(t.rows) = 0 \/ t.rows[1] = "LineString")
                 THEN "True"
             ELSE "False"
    ELSE "True"

\* Triplegs._check without lines 94-95: the dtype of finished_at is not read
Triplegs_check_skips_finished_at(t, validate_geometry) ==
    IF \E c \in required_columns : c \notin t.cols THEN "False"
    ELSE IF Len(t.rows) <= 0 THEN "False"
    ELSE IF ~t.tzS THEN "False"
    ELSE IF validate_geometry
        THEN IF ~HasGeometry(t) THEN "AttributeError: no geometry column"
             ELSE IF AllValid(t) /\ t.rows[1] = "LineString" THEN "True"
             ELSE "False"
    ELSE "True"

\* Triplegs._check, lines 85-98: "True", "False", or the AttributeError of
\* obj.geometry on a table without a geometry column
Triplegs_check(t, validate_geometry) ==
    IF \E c \in required_columns : c \notin t.cols THEN "False"
    ELSE IF Len(t.rows) <= 0 THEN "False"
    ELSE IF ~t.tzS THEN "False"
    ELSE IF ~t.tzF THEN "False"
    ELSE IF validate_geometry
        THEN IF ~HasGeometry(t) THEN "AttributeError: no geometry column"
             ELSE IF AllValid(t) /\ t.rows[1] = "LineString" THEN "True"
             ELSE "False"
    ELSE "True"

(***************************************************************************)
(* The typed-view classes.                                                 *)
(***************************************************************************)
\* the container a class subclasses: triplegs.py line 24, test_util.py
\* lines 149, 152, 213
ClassBase(c) ==
    CASE c = "Triplegs" -> "GeoDataFrame"
      [] c = "A" -> "GeoDataFrame"
      [] c = "AFallback" -> "DataFrame"
      [] c = "ADf" -> "DataFrame"

\* fallback_class as the class declares it: test_util.py line 155; Triplegs
\* (triplegs.py lines 24-57) declares none
ClassFallback(c) == IF c = "A" THEN "AFallback" ELSE None

\* A._check reading the wrong column name
A_check_wrong_column(t, validate_geometry) ==
    IF "tracked_at" \in t.cols THEN "True" ELSE "False"

\* TestTrackintelGeoDataFrame.A._check, test_util.py lines 160-162
A_check(t, validate_geometry) == IF "user_id" \in t.cols THEN "True" ELSE "False"

\* TestTrackintelDataFrame.A._check, test_util.py lines 216-218
ADf_check(t) == IF "user_id" \in t.cols THEN "True" ELSE "False"

\* AFallback (test_util.py lines 152-153) declares no _check of its own: the
\* weaker view "requiring only the non-geometric columns" of specification
\* section 4.3
AFallback_check(t) == IF "user_id" \in t.cols THEN "True" ELSE "False"

ClassCheck(c, t, validate_geometry) ==
    CASE c = "Triplegs" -> Triplegs_check(t, validate_geometry)
      [] c = "A" -> A_check(t, validate_geometry)
      [] c = "AFallback" -> AFallback_check(t)
      [] c = "ADf" -> ADf_check(t)

\* Triplegs.__init__, lines 50-52: the container is built, then _validate
\* runs on it
Triplegs_init(t, validate_geometry) == Triplegs_validate(t, validate_geometry)

\* A.__init__, test_util.py lines 157-158: no validation
A_init(t, validate_geometry) == "ok"

ClassInit(c, t, validate_geometry) ==
    CASE c = "Triplegs" -> Triplegs_init(t, validate_geometry)
      [] c = "A" -> A_init(t, validate_geometry)
      [] OTHER -> "ok"

\* cls(t, validate_geometry=...): the error raised, or the new instance
Construct(c, t, validate_geometry) ==
    LET e == ClassInit(c, t, validate_geometry)
    IN  [err |-> e,
         obj |-> IF e = "ok"
                 THEN [t EXCEPT !.tag = c, !.fb = ClassFallback(c)]
                 ELSE t]

(***************************************************************************)
(* Derivation: the library builds the raw result, then the view's          *)
(* _constructor (or _wrapped_gdf_method) decides its class.                *)
(***************************************************************************)
Base(tag) == IF tag \in Classes THEN ClassBase(tag) ELSE tag

\* the container the library itself builds for a result derived from a
\* container of class tag: a GeoDataFrame keeps being one while it has a
\* geometry column (test_util.py lines 182-202)
KindOf(tag, cols) ==
    IF Base(tag) = "GeoDataFrame" /\ "geometry" \in cols
    THEN "GeoDataFrame" ELSE "DataFrame"

\* validate_geometry as a derivation passes it to _check and to the
\* initializer: the contract is re-checked without the geometry validation
DeriveValidateGeometry == FALSE

\* the contract of class c on a derived table: a view over a GeoDataFrame
\* holds only on a GeoDataFrame (test_util.py lines 108-143)
Contract(c, raw) ==
    /\ ClassBase(c) = "GeoDataFrame" => raw.tag = "GeoDataFrame"
    /\ ClassCheck(c, raw, DeriveValidateGeometry) = "True"

\* the constructor-selection procedure of specification section 4.2, steps
\* 2 to 5, for class c whose fallback is fb
RECURSIVE Retag(_, _, _)
Retag(c, fb, raw) ==
    IF Contract(c, raw) THEN Construct(c, raw, DeriveValidateGeometry)
    ELSE IF fb # None THEN Retag(fb, ClassFallback(fb), raw)
    ELSE [err |-> "ok", obj |-> raw]

\* the procedure without its step 1: a non-tabular result is tagged too
Derive_tags_series(src, raw) ==
    IF src.tag \in Classes THEN Retag(src.tag, src.fb, raw)
    ELSE [err |-> "ok", obj |-> raw]

\* the procedure run for a generic container too, with the Triplegs class
Derive_repromotes(src, raw) ==
    IF raw.tag = Series THEN [err |-> "ok", obj |-> raw]
    ELSE IF src.tag \in Classes THEN Retag(src.tag, src.fb, raw)
    ELSE Retag("Triplegs", None, raw)

\* step 1, then the procedure; a generic container derives generic ones
Derive(src, raw) ==
    IF raw.tag = Series THEN [err |-> "ok", obj |-> raw]
    ELSE IF src.tag \in Classes THEN Retag(src.tag, src.fb, raw)
    ELSE [err |-> "ok", obj |-> raw]

\* the rows of rows at the positions of mask, in order
RECURSIVE Pick(_, _, _)
Pick(rows, mask, i) ==
    IF i > Len(rows) THEN <<>>
    ELSE (IF i \in mask THEN <<rows[i]>> ELSE <<>>) \o Pick(rows, mask, i + 1)

\* each row of rows k times
RECURSIVE Repeat(_, _, _)
Repeat(rows, k, i) ==
    IF i > Len(rows) THEN <<>>
    ELSE [j \in 1..k |-> rows[i]] \o Repeat(rows, k, i + 1)

RawOf(src, cols, rows, tzS, tzF) ==
    Table(KindOf(src.tag, cols), cols,
          IF "geometry" \in cols THEN rows ELSE NoRows(Len(rows)), tzS, tzF)

(***************************************************************************)
(* The accessor registry: registry maps each name to the factory bound to  *)
(* it on the generic container, acc records the last registration or       *)
(* attribute access (the instance it was made on, what it returned or      *)
(* raised, whether it called a factory) and, as history, the factory       *)
(* registered last under each name.                                        *)
(***************************************************************************)
Names == {"as_triplegs", "foo"}

\* the class Triplegs (triplegs.py lines 23-24) and the function foo of
\* test_util.py lines 238-239, 255-256, 269-270
Factories == {"Triplegs", "foo"}

\* trackintel is imported: triplegs.py line 23 has registered as_triplegs
InitialRegistry == [n \in Names |-> IF n = "as_triplegs" THEN "Triplegs" ELSE None]

NoAccess ==
    [op |-> "none", name |-> "", factory |-> None, before |-> None, warned |-> 0,
     returned |-> None, called |-> FALSE, err |-> "ok",
     inst |-> example_positionfixes, value |-> example_positionfixes,
     n |-> 0, latest |-> InitialRegistry]


\* factory(instance): Triplegs(instance) with the default validate_geometry
\* (triplegs.py line 50), foo(val) returning val (test_util.py lines 238-239)
Apply(factory, instance) ==
    IF factory = "Triplegs"
    THEN LET r == Construct("Triplegs", [instance EXCEPT !.tag = "GeoDataFrame"], TRUE)
         IN  [called |-> TRUE, err |-> r.err,
              value |-> IF r.err = "ok" THEN r.obj ELSE instance]
    ELSE [called |-> TRUE, err |-> "ok", value |-> instance]

\* an accessor that keeps the first result of a name on an instance
NonCachedAccessor_get_cached(instance, factory, cached) ==
    IF cached.called THEN [cached EXCEPT !.called = FALSE]
    ELSE Apply(factory, instance)

\* NonCachedAccessor.__get__ on an instance (specification section 4.1,
\* test_util.py lines 232-246): factory(instance) on every access; cached is
\* what the previous access of the name on the instance returned
NonCachedAccessor_get(instance, factory, cached) == Apply(factory, instance)

\* the property that is as Triplegs.as_triplegs calls the factory
Triplegs_as_triplegs_constructs(self) == Apply("Triplegs", self)

\* Triplegs.as_triplegs, triplegs.py lines 54-57: the instance itself,
\* "avoid second call of init via accessor"
Triplegs_as_triplegs(self) == [called |-> FALSE, err |-> "ok", value |-> self]

\* what the name resolves to on an instance or class of tag: the property of
\* the subclass shadows the accessor bound on the generic container
Resolve(tag, name) ==
    IF tag = "Triplegs" /\ name = "as_triplegs" THEN "property"
    ELSE IF registry[name] # None THEN "accessor"
    ELSE "missing"

\* _register_trackintel_accessor(name)(factory) keeping the first binding
register_keeps_first(name, factory) ==
    [warned |-> IF registry[name] # None THEN 1 ELSE 0,
     registry |-> IF registry[name] # None THEN registry
                  ELSE [registry EXCEPT ![name] = factory],
     returned |-> factory]

\* _register_trackintel_accessor(name)(factory), specification section 4.1
\* and test_util.py lines 252-277: a warning when the name is bound already,
\* the new binding, and the factory as the decorator's value
register_trackintel_accessor(name, factory) ==
    [warned |-> IF registry[name] # None THEN 1 ELSE 0,
     registry |-> [registry EXCEPT ![name] = factory],
     returned |-> factory]

(***************************************************************************)
(* Labelling (analysis/labelling.py).  Speeds and bounds are in km/h, the  *)
(* source's m/s times 3.6, so that the default bounds 15/3.6 and 100/3.6   *)
(* are the integers 15 and 100; Inf stands for np.inf.                     *)
(***************************************************************************)
Inf == -1
SlowBound == 15
MotorizedBound == 100

\* a < b and a >= b on the floats, Inf included
lt(a, b) == IF a = Inf THEN FALSE ELSE IF b = Inf THEN TRUE ELSE a < b
ge(a, b) == ~lt(a, b)

\* the default of the keyword argument categories, labelling.py lines 80-82
DefaultCategories ==
    << [bound |-> SlowBound, label |-> "slow_mobility"],
       [bound |-> MotorizedBound, label |-> "motorized_mobility"],
       [bound |-> Inf, label |-> "fast_mobility"] >>

\* category_by_speed with <= for < in line 140
RECURSIVE category_by_speed_inclusive(_, _, _)
category_by_speed_inclusive(speed, categories, i) ==
    IF i > Len(categories) THEN None
    ELSE IF lt(speed, categories[i].bound) \/ speed = categories[i].bound
         THEN categories[i].label
    ELSE category_by_speed_inclusive(speed, categories, i + 1)

\* category_by_speed, labelling.py lines 125-141: the loop from band i on;
\* None when it ends without a return
RECURSIVE category_by_speed(_, _, _)
category_by_speed(speed, categories, i) ==
    IF i > Len(categories) THEN None
    ELSE IF lt(speed, categories[i].bound) THEN categories[i].label
    ELSE category_by_speed(speed, categories, i + 1)

\* _check_categories, labelling.py lines 149-169
check_categories(cat) ==
    ~(\E i \in 1..(Len(cat) - 1) : ge(cat[i].bound, cat[i + 1].bound))

\* _predict_transport_mode_simple_coarse, labelling.py lines 89-146: the
\* error raised, or the mode column of the copy it returns
predict_transport_mode_simple_coarse(speeds, categories) ==
    IF ~check_categories(categories)
    THEN [err |-> "ValueError: the categories must be in increasing order",
          mode |-> <<>>]
    ELSE [err |-> "ok",
          mode |-> [i \in 1..Len(speeds) |->
                      category_by_speed(speeds[i], categories, 1)]]

\* predict_transport_mode, labelling.py lines 45-86
predict_transport_mode(speeds, method, categories) ==
    IF method = "simple-coarse"
    THEN predict_transport_mode_simple_coarse(speeds, categories)
    ELSE [err |-> "AttributeError: Method " \o method
                      \o " not known for predicting tripleg transport modes.",
          mode |-> <<>>]

NoLabelling ==
    [op |-> "none", method |-> "", categories |-> <<>>, err |-> "ok", mode |-> <<>>]

\* the speeds of the model: the small ones, the default bounds, the speed
\* just below the higher one, and an infinite one
Speeds ==
    (0..MaxSpeed) \cup {SlowBound, MotorizedBound - 1, MotorizedBound} \cup {Inf}

BandLabels == <<"band1", "band2", "band3", "band4">>

\* the mappings a caller passes: up to MaxBands bands with distinct bounds,
\* in any order
CallerCategories ==
    {c \in UNION {[1..k -> (1..MaxSpeed) \cup {Inf}] : k \in 0..MaxBands} :
        \A i, j \in 1..Len(c) : i # j => c[i] # c[j]}

Categories ==
    {DefaultCategories}
    \cup {[i \in 1..Len(c) |-> [bound |-> c[i], label |-> BandLabels[i]]] :
            c \in CallerCategories}

(***************************************************************************)
(* create_activity_flag.  A staypoints table is a function from its column *)
(* names to its columns; started_at and finished_at are in minutes, a flag *)
(* column holds "True" or "False".                                         *)
(***************************************************************************)
\* the default of time_threshold, labelling.py line 8
DefaultTimeThreshold == 15

\* the comparison of line 36 as a column value
Flag(b) == IF b THEN "True" ELSE "False"

\* create_activity_flag with >= for > in line 36
create_activity_flag_inclusive(staypoints, method, time_threshold, activity_column_name) ==
    IF method = "time_threshold"
    THEN [err |-> "ok",
          staypoints |->
            [c \in DOMAIN staypoints \cup {activity_column_name} |->
               IF c = activity_column_name
               THEN [i \in 1..Len(staypoints["started_at"]) |->
                       Flag(staypoints["finished_at"][i]
                              - staypoints["started_at"][i] >= time_threshold)]
               ELSE staypoints[c]]]
    ELSE [err |-> "AttributeError: Method " \o method
                      \o " not known for creating activity flag.",
          staypoints |-> staypoints]

\* create_activity_flag taking any method for time_threshold
create_activity_flag_any_method(staypoints, method, time_threshold, activity_column_name) ==
    [err |-> "ok",
     staypoints |->
       [c \in DOMAIN staypoints \cup {activity_column_name} |->
          IF c = activity_column_name
          THEN [i \in 1..Len(staypoints["started_at"]) |->
                  Flag(staypoints["finished_at"][i]
                         - staypoints["started_at"][i] > time_threshold)]
          ELSE staypoints[c]]]

\* create_activity_flag, labelling.py lines 8-42: the error raised, and the
\* table the caller passed as the call leaves it (line 36 assigns the
\* column in place, line 42 returns the same object)
create_activity_flag(staypoints, method, time_threshold, activity_column_name) ==
    IF method = "time_threshold"
    THEN [err |-> "ok",
          staypoints |->
            [c \in DOMAIN staypoints \cup {activity_column_name} |->
               IF c = activity_column_name
               THEN [i \in 1..Len(staypoints["started_at"]) |->
                       Flag(staypoints["finished_at"][i]
                              - staypoints["started_at"][i] > time_threshold)]
               ELSE staypoints[c]]]
    ELSE [err |-> "AttributeError: Method " \o method
                      \o " not known for creating activity flag.",
          staypoints |-> staypoints]

\* the timestamps of the model, in minutes
Minutes == {0, 5, 15, 20}

\* the stays of the model: started_at and finished_at, the first not after
\* the second
Stays == {st \in Minutes \X Minutes : st[1] <= st[2]}

\* the staypoints table of the stays sts, all of one user
Staypoints(sts) ==
    [c \in {"user_id", "started_at", "finished_at"} |->
       [i \in 1..Len(sts) |->
          CASE c = "user_id" -> "user0"
            [] c = "started_at" -> sts[i][1]
            [] c = "finished_at" -> sts[i][2]]]

\* the thresholds a caller passes, in minutes
Thresholds == {10, DefaultTimeThreshold}

\* the names a caller passes as activity_column_name: the default, another
\* new column, and a column the table already has
ActivityColumnNames == {"is_activity", "activity", "user_id"}

(***************************************************************************)
(* The typed-view machine: obj is the object at hand, last records the     *)
(* operation that produced it (its name and argument, the object it ran    *)
(* on, the validate_geometry it passed, the raw result of the library, and *)
(* the error it raised, if any).  An operation that raises leaves obj as   *)
(* it was.  origin is the class of the explicit construction obj descends  *)
(* from, None for raw data that never was a typed view.                    *)
(***************************************************************************)
Op(name, arg, vg, src, raw, r) ==
    /\ obj' = IF r.err = "ok" THEN r.obj ELSE obj
    /\ origin' = IF name \in Classes /\ r.err = "ok" THEN name ELSE origin
    /\ last' = [op |-> name, arg |-> arg, vg |-> vg, src |-> src, raw |-> raw,
                err |-> r.err]
    /\ UNCHANGED <<registry, acc, tpls, lab, sp, flag>>

IsTable(o) == o.tag # Series

\* Triplegs(obj, validate_geometry=vg), triplegs.py lines 50-52
ConstructTriplegs ==
    \E vg \in BOOLEAN :
        /\ IsTable(obj)
        /\ Op("Triplegs", "", vg, obj, [obj EXCEPT !.tag = "GeoDataFrame"],
              Construct("Triplegs", [obj EXCEPT !.tag = "GeoDataFrame"], vg))

\* a = self.A(example_positionfixes), test_util.py lines 166, 172, 178
ConstructA ==
    LET r == Construct("A", example_positionfixes, TRUE)
    IN  Op("A", "", TRUE, example_positionfixes, example_positionfixes, r)

\* a = self.A(example_positionfixes), test_util.py line 222
ConstructADf ==
    LET raw == [example_positionfixes EXCEPT !.tag = "DataFrame"]
    IN  Op("ADf", "", TRUE, example_positionfixes, raw, Construct("ADf", raw, TRUE))

\* a.fallback_class = None, test_util.py line 200
UnsetFallback ==
    /\ obj.tag = "A" /\ obj.fb # None
    /\ Op("fallback_class = None", "", FALSE, obj, obj,
          [err |-> "ok", obj |-> [obj EXCEPT !.fb = None]])

DeriveOp(name, arg, raw) ==
    Op(name, arg, DeriveValidateGeometry, obj, raw, Derive(obj, raw))

SameTable(src) == RawOf(src, src.cols, src.rows, src.tzS, src.tzF)

\* a.loc[...] selecting everything, test_util.py lines 164-168
LocAll == IsTable(obj) /\ DeriveOp("loc", "", SameTable(obj))

\* a.copy(), test_util.py lines 170-174; labelling.py line 123
Copy == IsTable(obj) /\ DeriveOp("copy", "", SameTable(obj))

\* a.merge(a, on="user_id", suffixes=("", "_other")), test_util.py lines
\* 176-180: every row k times, k the number of rows sharing its user_id
MergeSelf ==
    /\ IsTable(obj) /\ "user_id" \in obj.cols
    /\ \E k \in 1..Len(obj.rows) :
        /\ k * Len(obj.rows) <= MaxMergeRows
        /\ DeriveOp("merge", "", RawOf(obj,
              IF obj.cols = {"user_id"} THEN obj.cols ELSE obj.cols \cup {Other},
              Repeat(obj.rows, k, 1), obj.tzS, obj.tzF))

\* a.drop(columns=c), test_util.py lines 188, 194, 201, 223
DropColumn ==
    \E c \in obj.cols :
        /\ IsTable(obj)
        /\ DeriveOp("drop", c, RawOf(obj, obj.cols \ {c}, obj.rows, obj.tzS, obj.tzF))

\* a[mask]: a selection of rows, possibly of none
SelectRows ==
    \E mask \in SUBSET (1..Len(obj.rows)) :
        /\ IsTable(obj)
        /\ DeriveOp("rows", "", RawOf(obj, obj.cols, Pick(obj.rows, mask, 1),
                                      obj.tzS, obj.tzF))

\* a.assign(c=...) with a timestamp column, timezone-aware or naive
AssignTime ==
    \E c \in {"started_at", "finished_at"}, aware \in BOOLEAN :
        /\ IsTable(obj)
        /\ DeriveOp("assign", c, RawOf(obj, obj.cols \cup {c}, obj.rows,
              IF c = "started_at" THEN aware ELSE obj.tzS,
              IF c = "finished_at" THEN aware ELSE obj.tzF))

\* a[c]: one column, a Series
GetColumn ==
    \E c \in obj.cols :
        /\ IsTable(obj)
        /\ DeriveOp("column", c,
              [Table(Series, {c}, IF c = "geometry" THEN obj.rows
                                  ELSE NoRows(Len(obj.rows)),
                     obj.tzS, obj.tzF) EXCEPT !.tag = Series])

\* pd.Series(gdf.iloc[0]): one row, a Series (test_util.py lines 65-72)
GetRow ==
    \E i \in 1..Len(obj.rows) :
        /\ IsTable(obj)
        /\ DeriveOp("row", "",
              [Table(Series, obj.cols, <<obj.rows[i]>>, obj.tzS, obj.tzF)
                 EXCEPT !.tag = Series])

NoFlag(staypoints) ==
    [op |-> "none", method |-> "", time_threshold |-> 0,
     activity_column_name |-> "", err |-> "ok",
     before |-> staypoints, returned |-> staypoints]

InitOther ==
    /\ origin = None
    /\ registry = InitialRegistry
    /\ acc = NoAccess
    /\ tpls = <<>>
    /\ lab = NoLabelling
    /\ sp = Staypoints(<<>>)
    /\ flag = NoFlag(sp)

Init ==
    /\ obj \in RawTables
    /\ last = [op |-> "init", arg |-> "", vg |-> FALSE, src |-> obj, raw |-> obj,
               err |-> "ok"]
    /\ InitOther

Next ==
    \/ ConstructTriplegs
    \/ ConstructA
    \/ ConstructADf
    \/ UnsetFallback
    \/ LocAll
    \/ Copy
    \/ MergeSelf
    \/ DropColumn
    \/ SelectRows
    \/ AssignTime
    \/ GetColumn
    \/ GetRow

Spec == Init /\ [][Next]_vars

(***************************************************************************)
(* The registry machine.                                                   *)
(***************************************************************************)
Register ==
    \E name \in Names, factory \in Factories :
        LET r == register_trackintel_accessor(name, factory)
        IN  /\ registry' = r.registry
            /\ acc' = [NoAccess EXCEPT !.op = "register", !.name = name,
                         !.factory = factory, !.before = registry[name],
                         !.warned = r.warned, !.returned = r.returned,
                         !.latest = [acc.latest EXCEPT ![name] = factory]]
            /\ UNCHANGED <<obj, last, origin, tpls, lab, sp, flag>>

\* obj.name
Access ==
    \E name \in Names :
        /\ IsTable(obj)
        /\ acc.n < MaxAccesses
        /\ LET how == Resolve(obj.tag, name)
               cached == IF acc.op = "access" /\ acc.name = name /\ acc.err = "ok"
                            /\ acc.inst = obj /\ how = "accessor"
                         THEN [called |-> TRUE, err |-> acc.err, value |-> acc.value]
                         ELSE [called |-> FALSE, err |-> "ok", value |-> obj]
               r == CASE how = "property" -> Triplegs_as_triplegs(obj)
                      [] how = "accessor" ->
                            NonCachedAccessor_get(obj, registry[name], cached)
                      [] OTHER -> [called |-> FALSE, err |-> "AttributeError",
                                   value |-> obj]
           IN  acc' = [NoAccess EXCEPT !.op = "access", !.name = name,
                         !.factory = IF how = "accessor" THEN registry[name] ELSE None,
                         !.called = r.called, !.err = r.err, !.inst = obj,
                         !.value = r.value,
                         !.n = acc.n + 1, !.latest = acc.latest]
        /\ UNCHANGED <<obj, last, origin, registry, tpls, lab, sp, flag>>

\* type(obj).name on a generic container class: the factory itself
\* (test_util.py lines 245, 261)
ClassAccess ==
    \E name \in Names :
        /\ registry[name] # None
        /\ acc' = [NoAccess EXCEPT !.op = "class access", !.name = name,
                     !.factory = registry[name], !.returned = registry[name],
                     !.latest = acc.latest]
        /\ UNCHANGED <<obj, last, origin, registry, tpls, lab, sp, flag>>

InitRegistry ==
    /\ obj \in {t \in RawTables : required_columns \subseteq t.cols}
    /\ last = [op |-> "init", arg |-> "", vg |-> FALSE, src |-> obj, raw |-> obj,
               err |-> "ok"]
    /\ InitOther

NextRegistry ==
    \/ ConstructTriplegs
    \/ Register
    \/ Access
    \/ ClassAccess

SpecRegistry == InitRegistry /\ [][NextRegistry]_vars

(***************************************************************************)
(* Properties of the typed views.                                          *)
(***************************************************************************)
DeriveOps == {"loc", "copy", "merge", "drop", "rows", "assign", "column", "row"}

\* the last operation derived a result from a typed view
DerivedFromView == last.op \in DeriveOps /\ last.src.tag \in Classes

\* the same table, whatever class it is tagged with
SameData(a, b) ==
    /\ a.cols = b.cols /\ a.rows = b.rows /\ a.tzS = b.tzS /\ a.tzF = b.tzF

\* C1: when a typed view derives a table of its own container kind on
\* which its _check holds, the result is an instance of exactly the view's
\* class (not the generic container, not the fallback class), it holds the
\* derived table, and nothing is raised; loc, copy and a self-merge of a
\* typed view are such derivations whenever the view satisfies its _check.
C1_KeepsClass ==
    /\ (/\ DerivedFromView
        /\ last.raw.tag = ClassBase(last.src.tag)
        /\ ClassCheck(last.src.tag, last.raw, last.vg) = "True")
       => (/\ last.err = "ok"
           /\ obj.tag = last.src.tag
           /\ SameData(obj, last.raw))
    /\ (/\ DerivedFromView
        /\ last.op \in {"loc", "copy", "merge"}
        /\ KindOf(last.src.tag, last.src.cols) = ClassBase(last.src.tag)
        /\ ClassCheck(last.src.tag, last.src, last.vg) = "True")
       => (last.err = "ok" /\ obj.tag = last.src.tag)

C1_Witness ==
    /\ last.op = "merge" /\ last.src.tag = "Triplegs"
    /\ Len(last.raw.rows) > Len(last.src.rows)
    /\ obj.tag = "Triplegs"

C3_GenericWhenNoFallback ==
    /\ (/\ DerivedFromView
        /\ last.raw.tag # Series
        /\ ~Contract(last.src.tag, last.raw)
        /\ \/ last.src.fb = None
           \/ /\ ~Contract(last.src.fb, last.raw)
              /\ ClassFallback(last.src.fb) = None)
       => (/\ last.err = "ok"
           /\ obj.tag \in Generic
           /\ obj.tag = KindOf(last.src.tag, last.raw.cols)
           /\ obj.fb = None
           /\ SameData(obj, last.raw))
    /\ (DerivedFromView /\ last.op = "drop" /\ last.arg = "user_id")
       => (/\ last.err = "ok"
           /\ obj.tag = (IF ClassBase(last.src.tag) = "GeoDataFrame"
                            /\ "geometry" \in obj.cols
                         THEN "GeoDataFrame" ELSE "DataFrame"))

C3_Witness ==
    /\ last.op = "drop" /\ last.arg = "user_id" /\ last.src.tag = "Triplegs"
    /\ obj.tag = "GeoDataFrame"

\* C4: an operation on a typed view whose result is not a table (one
\* column, one row) returns that result as it is: it is a Series, never an
\* instance of the view or of its fallback class, even when the view's
\* _check would accept it.
C4_SeriesUntouched ==
    (DerivedFromView /\ last.raw.tag = Series) =>
        (last.err = "ok" /\ obj = last.raw /\ obj.tag \notin Classes)

C4_Witness ==
    /\ last.op = "row" /\ last.src.tag = "ADf" /\ obj.tag = Series
    /\ ADf_check(last.raw) = "True"

\* C5: for every table and both values of validate_geometry, constructing
\* Triplegs succeeds exactly when Triplegs._check returns True on the
\* table (when it returns False or raises, _validate raises); the instance
\* constructed is tagged Triplegs, holds the table, and passes _check; a
\* failed construction produces nothing.
C5_CheckIffValidate ==
    last.op = "Triplegs" =>
        /\ (last.err = "ok") <=> (Triplegs_check(last.raw, last.vg) = "True")
        /\ (Triplegs_validate(last.raw, last.vg) = "ok")
              <=> (Triplegs_check(last.raw, last.vg) = "True")
        /\ last.err = "ok" =>
              /\ obj.tag = "Triplegs"
              /\ SameData(obj, last.src)
              /\ Triplegs_check(obj, last.vg) = "True"
              /\ Len(obj.rows) > 0 /\ required_columns \subseteq obj.cols
              /\ obj.tzS /\ obj.tzF
              /\ last.vg => (HasGeometry(obj) /\ AllValid(obj)
                             /\ obj.rows[1] = "LineString")
        /\ last.err # "ok" => obj = last.src

C5_Witness ==
    /\ last.op = "Triplegs" /\ last.vg /\ last.err = "ok"
    /\ last.src.tag = "GeoDataFrame" /\ obj.tag = "Triplegs"
    /\ Len(obj.rows) = 2 /\ obj.rows[2] = "Point"

\* C6: constructing Triplegs over a table that violates the contract raises
\* the error of the first requirement violated, in the order emptiness,
\* required columns, started_at, finished_at, geometry, and produces no
\* instance: the object at hand stays the one the constructor was given.
C6_FirstViolationRaised ==
    last.op = "Triplegs" =>
        LET t == last.raw
            empty == Len(t.rows) = 0
            missing == ~(required_columns \subseteq t.cols)
            naiveS == ~t.tzS
            naiveF == ~t.tzF
            badGeometry ==
                last.vg /\ ~(HasGeometry(t) /\ AllValid(t) /\ t.rows[1] = "LineString")
        IN  /\ empty => last.err = "AssertionError: Geodataframe is empty"
            /\ (~empty /\ missing)
                 => last.err = "AttributeError: must have the properties required_columns"
            /\ (~empty /\ ~missing /\ naiveS)
                 => last.err = "AssertionError: dtype of started_at"
            /\ (~empty /\ ~missing /\ ~naiveS /\ naiveF)
                 => last.err = "AssertionError: dtype of finished_at"
            /\ (~empty /\ ~missing /\ ~naiveS /\ ~naiveF /\ badGeometry)
                 => last.err \in {"AttributeError: no geometry column",
                                  "AssertionError: Not all geometries are valid",
                                  "AttributeError: The geometry must be a LineString"}
            /\ (empty \/ missing \/ naiveS \/ naiveF \/ badGeometry)
                 => (last.err # "ok" /\ obj = last.src)

C6_Witness ==
    /\ last.op = "Triplegs" /\ last.err = "AssertionError: Geodataframe is empty"
    /\ ~(required_columns \subseteq last.raw.cols)
    /\ obj = last.src /\ obj.tag = "DataFrame"

\* C7: no derivation from a typed view raises: whatever the derived table
\* (empty, without required columns, without geometry column, with naive
\* timestamps), the result is an instance of the view's class, of its
\* fallback class, or a generic container.
C7_DeriveNeverRaises ==
    DerivedFromView =>
        /\ last.err = "ok"
        /\ last.raw.tag # Series =>
              /\ obj.tag \in ({last.src.tag, last.src.fb} \ {None}) \cup Generic
              /\ SameData(obj, last.raw)

C7_Witness ==
    /\ last.op = "rows" /\ last.src.tag = "Triplegs" /\ Len(last.raw.rows) = 0
    /\ last.err = "ok" /\ obj.tag = "GeoDataFrame"

C9_EveryAccessCallsFactory ==
    /\ (acc.op = "access" /\ registry[acc.name] # None) =>
          /\ acc.called
          /\ acc.err = Apply(registry[acc.name], acc.inst).err
          /\ acc.value = Apply(registry[acc.name], acc.inst).value
    /\ acc.op = "class access" =>
          (acc.returned = registry[acc.name] /\ ~acc.called)

\* C9, amended: every access of a registered name on an instance calls
\* factory(instance) and returns its result (or raises its error), anew on
\* every access, except as_triplegs on an instance of Triplegs: that is the
\* class's own property, which returns the instance itself and calls no
\* factory.  The access on the container type returns the factory, uncalled.
C9_AccessorOrOwnProperty ==
    /\ (/\ acc.op = "access" /\ registry[acc.name] # None
        /\ ~(acc.inst.tag = "Triplegs" /\ acc.name = "as_triplegs")) =>
          /\ acc.called
          /\ acc.factory = registry[acc.name]
          /\ acc.err = Apply(registry[acc.name], acc.inst).err
          /\ acc.value = Apply(registry[acc.name], acc.inst).value
    /\ (acc.op = "access" /\ acc.inst.tag = "Triplegs" /\ acc.name = "as_triplegs") =>
          (~acc.called /\ acc.err = "ok" /\ acc.value = acc.inst)
    /\ acc.op = "class access" =>
          (acc.returned = registry[acc.name] /\ ~acc.called)

\* a Triplegs built without the geometry validation, whose as_triplegs
\* returns it although Triplegs(instance) would raise
C9_Witness ==
    /\ acc.op = "access" /\ acc.name = "as_triplegs" /\ acc.n = 2
    /\ acc.inst.tag = "Triplegs" /\ registry["as_triplegs"] = "Triplegs"
    /\ acc.value = acc.inst /\ ~acc.called
    /\ Apply("Triplegs", acc.inst).err # "ok"

(***************************************************************************)
(* The labelling machine: tpls holds the average speeds of the caller's    *)
(* triplegs (get_speed_triplegs), lab the last call and what it returned.  *)
(***************************************************************************)
\* triplegs.predict_transport_mode(method=..., categories=...)
PredictTransportMode ==
    \E method \in {"simple-coarse", "fine"} :
      \E categories \in IF method = "simple-coarse" THEN Categories
                         ELSE {DefaultCategories} :
        LET r == predict_transport_mode(tpls, method, categories)
        IN  /\ lab' = [op |-> "predict_transport_mode", method |-> method,
                       categories |-> categories, err |-> r.err, mode |-> r.mode]
            /\ UNCHANGED <<obj, last, origin, registry, acc, tpls, sp, flag>>

InitLabel ==
    /\ tpls \in UNION {[1..n -> Speeds] : n \in 0..MaxTriplegs}
    /\ lab = NoLabelling
    /\ obj = example_positionfixes
    /\ last = [op |-> "init", arg |-> "", vg |-> FALSE, src |-> obj, raw |-> obj,
               err |-> "ok"]
    /\ origin = None
    /\ registry = InitialRegistry
    /\ acc = NoAccess
    /\ sp = Staypoints(<<>>)
    /\ flag = NoFlag(sp)

NextLabel == PredictTransportMode

SpecLabel == InitLabel /\ [][NextLabel]_vars

(***************************************************************************)
(* Properties of the labelling.                                            *)
(***************************************************************************)
\* the bands of categories whose upper bound is strictly greater than speed
BandsAbove(speed, categories) ==
    {k \in 1..Len(categories) : lt(speed, categories[k].bound)}

Lowest(S) == CHOOSE k \in S : \A j \in S : k <= j

\* C10: a call with method simple-coarse that returns (the bounds of the
\* mapping are strictly increasing; otherwise the ValueError of
\* _check_categories is raised and no label given) labels every tripleg with
\* the first band, in the order of the mapping, whose upper bound is
\* strictly greater than its speed, and with no label when there is none; a
\* speed equal to a band's upper bound gets the label of the next band; with
\* the default bands the call always returns and a finite speed below 15
\* km/h is slow_mobility, one from 15 to below 100 km/h motorized_mobility,
\* one of 100 km/h or more fast_mobility.
C10_FirstBandAbove ==
    (lab.op = "predict_transport_mode" /\ lab.method = "simple-coarse") =>
        /\ (lab.err = "ok") <=>
              (\A i, j \in 1..Len(lab.categories) :
                  i < j => lt(lab.categories[i].bound, lab.categories[j].bound))
        /\ lab.err = "ok" =>
              /\ Len(lab.mode) = Len(tpls)
              /\ \A i \in 1..Len(tpls) :
                  LET above == BandsAbove(tpls[i], lab.categories)
                  IN  /\ above # {} =>
                            lab.mode[i] = lab.categories[Lowest(above)].label
                      /\ above = {} => lab.mode[i] = None
                      /\ \A k \in 1..(Len(lab.categories) - 1) :
                            tpls[i] = lab.categories[k].bound =>
                                lab.mode[i] = lab.categories[k + 1].label
        /\ lab.categories = DefaultCategories =>
              /\ lab.err = "ok"
              /\ \A i \in 1..Len(tpls) :
                  tpls[i] # Inf =>
                      lab.mode[i] =
                          (IF tpls[i] < SlowBound THEN "slow_mobility"
                           ELSE IF tpls[i] < MotorizedBound THEN "motorized_mobility"
                           ELSE "fast_mobility")

C10_Witness ==
    /\ lab.op = "predict_transport_mode" /\ lab.method = "simple-coarse"
    /\ lab.categories = DefaultCategories
    /\ tpls = <<SlowBound, MotorizedBound>>
    /\ lab.mode = <<"motorized_mobility", "fast_mobility">>

(***************************************************************************)
(* The activity-flag machine: sp is the caller's staypoints table, flag    *)
(* the last call of create_activity_flag: its arguments, the table before  *)
(* it, the error it raised and the table it returned.                      *)
(***************************************************************************)
\* sp = create_activity_flag(sp, method=..., time_threshold=...,
\* activity_column_name=...)
CreateActivityFlag ==
    \E method \in {"time_threshold", "duration"} :
      \E time_threshold \in IF method = "time_threshold" THEN Thresholds
                             ELSE {DefaultTimeThreshold},
         activity_column_name \in IF method = "time_threshold"
                                  THEN ActivityColumnNames ELSE {"is_activity"} :
        LET r == create_activity_flag(sp, method, time_threshold,
                                      activity_column_name)
        IN  /\ sp' = r.staypoints
            /\ flag' = [op |-> "create_activity_flag", method |-> method,
                        time_threshold |-> time_threshold,
                        activity_column_name |-> activity_column_name,
                        err |-> r.err, before |-> sp,
                        returned |-> r.staypoints]
            /\ UNCHANGED <<obj, last, origin, registry, acc, tpls, lab>>

InitFlag ==
    /\ sp \in {Staypoints(sts) :
                 sts \in UNION {[1..n -> Stays] : n \in 0..MaxStaypoints}}
    /\ flag = NoFlag(sp)
    /\ tpls = <<>>
    /\ lab = NoLabelling
    /\ obj = example_positionfixes
    /\ last = [op |-> "init", arg |-> "", vg |-> FALSE, src |-> obj, raw |-> obj,
               err |-> "ok"]
    /\ origin = None
    /\ registry = InitialRegistry
    /\ acc = NoAccess

NextFlag == CreateActivityFlag

SpecFlag == InitFlag /\ [][NextFlag]_vars

\* the minutes between started_at and finished_at of row i
Duration(staypoints, i) == staypoints["finished_at"][i] - staypoints["started_at"][i]

\* C11: a call of create_activity_flag with method time_threshold raises
\* nothing and returns the table it was given with the column
\* activity_column_name, which holds for every row true exactly when
\* finished_at minus started_at is strictly greater than time_threshold
\* minutes (with threshold 15, 20 minutes is true, 10 minutes and exactly 15
\* minutes are false); every other column is as it was, no other column is
\* added and none removed.
C11_FlagIffLonger ==
    (flag.op = "create_activity_flag" /\ flag.method = "time_threshold") =>
        /\ flag.err = "ok"
        /\ sp = flag.returned
        /\ DOMAIN flag.returned = DOMAIN flag.before \cup {flag.activity_column_name}
        /\ \A c \in DOMAIN flag.before :
              c # flag.activity_column_name => flag.returned[c] = flag.before[c]
        /\ Len(flag.returned[flag.activity_column_name])
              = Len(flag.before["started_at"])
        /\ \A i \in 1..Len(flag.before["started_at"]) :
              LET d == Duration(flag.before, i)
                  a == flag.returned[flag.activity_column_name][i]
              IN  /\ a = "True" <=> d > flag.time_threshold
                  /\ a = "False" <=> ~(d > flag.time_threshold)
                  /\ (flag.time_threshold = 15 /\ d = 20) => a = "True"
                  /\ (flag.time_threshold = 15 /\ d = 10) => a = "False"
                  /\ (flag.time_threshold = 15 /\ d = 15) => a = "False"

\* a call with threshold 15 on stays of 20 and of exactly 15 minutes, under
\* the default column name
C11_Witness ==
    /\ flag.op = "create_activity_flag" /\ flag.method = "time_threshold"
    /\ flag.time_threshold = DefaultTimeThreshold
    /\ flag.activity_column_name = "is_activity"
    /\ "is_activity" \notin DOMAIN flag.before
    /\ flag.before["started_at"] = <<0, 5>>
    /\ flag.before["finished_at"] = <<20, 20>>
    /\ sp["is_activity"] = <<"True", "False">>

(***************************************************************************)
(* The two labelling routines called with any method name, on a table of   *)
(* staypoints and on one of triplegs.                                      *)
(***************************************************************************)
\* stays of 20 and of 10 minutes
ExampleStays == << <<0, 20>>, <<5, 15>> >>

InitMethod ==
    /\ sp \in {Staypoints(<<>>), Staypoints(ExampleStays)}
    /\ flag = NoFlag(sp)
    /\ tpls \in {<<>>, <<SlowBound, MotorizedBound>>}
    /\ lab = NoLabelling
    /\ obj = example_positionfixes
    /\ last = [op |-> "init", arg |-> "", vg |-> FALSE, src |-> obj, raw |-> obj,
               err |-> "ok"]
    /\ origin = None
    /\ registry = InitialRegistry
    /\ acc = NoAccess

NextMethod ==
    \/ CreateActivityFlag
    \/ PredictTransportMode

SpecMethod == InitMethod /\ [][NextMethod]_vars

\* C12: after a step that leaves create_activity_flag called last with a
\* method other than time_threshold, the call has raised the AttributeError
\* that names the method, and the staypoints are what they were before the
\* step: no activity column was added; after a step that leaves
\* predict_transport_mode called last with a method other than
\* simple-coarse, the call has raised the AttributeError that names the
\* method, no mode column was returned, and the triplegs are what they were
\* before the step.
C12_UnsupportedMethodRaises ==
    [][ /\ (flag'.op = "create_activity_flag" /\ flag'.method # "time_threshold") =>
              /\ flag'.err = "AttributeError: Method " \o flag'.method
                                \o " not known for creating activity flag."
              /\ sp' = sp
              /\ DOMAIN sp' = DOMAIN sp
              /\ flag'.returned = sp
        /\ (lab'.op = "predict_transport_mode" /\ lab'.method # "simple-coarse") =>
              /\ lab'.err = "AttributeError: Method " \o lab'.method
                               \o " not known for predicting tripleg transport modes."
              /\ lab'.mode = <<>>
              /\ tpls' = tpls
      ]_vars

\* both routines were called last with an unsupported method, on tables
\* with rows, and the staypoints have no activity column
C12_Witness ==
    /\ flag.op = "create_activity_flag" /\ flag.method = "duration"
    /\ flag.err # "ok"
    /\ lab.op = "predict_transport_mode" /\ lab.method = "fine"
    /\ lab.err # "ok"
    /\ sp = Staypoints(ExampleStays)
    /\ tpls = <<SlowBound, MotorizedBound>>

(***************************************************************************)
(* Degradation is one-directional.                                         *)
(***************************************************************************)
\* the order typed view > fallback class > generic container (a Series
\* included)
Rank(tag) ==
    IF tag \in {"Triplegs", "A", "ADf"} THEN 2
    ELSE IF tag = "AFallback" THEN 1
    ELSE 0

ConstructOps == {"Triplegs", "A", "ADf"}

\* C13: an operation other than an explicit construction that succeeds
\* never moves the class of the object at hand up the order typed view >
\* fallback class > generic container: what is derived from a generic
\* container is generic and what is derived from the fallback class is the
\* fallback class or generic, even when the result satisfies the contract
\* of the typed view it descends from; so the object at hand is a typed
\* view only of the class it was last constructed as, or of that class's
\* fallback.
C13_NoRepromotion ==
    /\ (last.op \notin ConstructOps \/ last.err # "ok") =>
            Rank(obj.tag) <= Rank(last.src.tag)
    /\ (last.op \in DeriveOps /\ last.src.tag \notin Classes) =>
            obj.tag \notin Classes
    /\ (last.op \in DeriveOps /\ last.src.tag = "AFallback") =>
            obj.tag \in {"AFallback", "DataFrame", "GeoDataFrame", Series}
    /\ obj.tag \in Classes =>
            /\ origin # None
            /\ obj.tag \in {origin, ClassFallback(origin)}

\* a table that descends from a Triplegs and was degraded to the generic
\* container derives a table on which the Triplegs contract holds again:
\* the result is generic
C13_Witness ==
    /\ origin = "Triplegs"
    /\ last.op = "assign" /\ last.err = "ok"
    /\ last.src.tag = "GeoDataFrame"
    /\ ~Contract("Triplegs", last.src)
    /\ Contract("Triplegs", obj)
    /\ obj.tag = "GeoDataFrame"

====
